---- MODULE Spec2Model ----
(***************************************************************************)
(* sha3sum: the SHA3 sponge of src/src/lib.rs driven by main of            *)
(* src/src/main.rs.                                                        *)
(*                                                                         *)
(* A u64 lane is the set of its set bit positions (0 = least significant   *)
(* bit, 63 = most significant), so every lane keeps its 64-bit width.      *)
(* A byte is an integer in 0..255.  A Rust String is a sequence of         *)
(* one-character strings.  Rust's 0-based indices are kept in the          *)
(* variables; sequences are 1-based, so element k of a Vec v is v[k + 1].  *)
(***************************************************************************)
EXTENDS Integers, Sequences, FiniteSets

\* ---------------------------------------------------------------- bounds

\* Longest argument list drawn from SmallTokens.
MaxArgs == 4

\* Most blocks one absorb call may read in the model (a read that keeps
\* failing never ends the loop of lib.rs:186).
MaxBlocks == 3

\* ------------------------------------------------------------- constants

SHA_SUFFIX == 96

CAM == <<2, 3, 4, 0, 1>>

RHO_TABLE ==
    << <<21, 120, 28, 55, 153>>,
       <<136, 78, 91, 276, 231>>,
       <<105, 210, 0, 36, 3>>,
       <<45, 66, 1, 300, 10>>,
       <<15, 253, 190, 6, 171>> >>

\* ------------------------------------------------------------ u64 and u8

BitPos == 0 .. 63

\* a ^ b on u64
Xor(a, b) == (a \ b) \cup (b \ a)

\* a & b on u64
And(a, b) == a \cap b

\* !a on u64
Not(a) == BitPos \ a

\* u64::rotate_right(n): the bit at position i moves to position i - n,
\* modulo 64 (n is taken modulo 64).
RotateRight(a, n) == { (i + 64 - (n % 64)) % 64 : i \in a }

\* u64::rotate_left(n)
RotateLeft(a, n) == { (i + (n % 64)) % 64 : i \in a }

Pow2(k) == 2 ^ k

\* bit k of byte b
ByteBit(b, k) == (b \div Pow2(k)) % 2

\* u64::from_be_bytes: bytes[1] is the most significant byte, so bit p of the
\* word is bit p % 8 of bytes[8 - p / 8].
FromBeBytes(bytes) ==
    { p \in BitPos : ByteBit(bytes[8 - (p \div 8)], p % 8) = 1 }

\* u64::to_be_bytes
ToBeBytes(a) ==
    [ j \in 1 .. 8 |->
        LET bit(k) == IF (8 * (8 - j) + k) \in a THEN Pow2(k) ELSE 0
        IN  bit(0) + bit(1) + bit(2) + bit(3) + bit(4) + bit(5) + bit(6) + bit(7) ]

\* The loop of reverse_bits_in_place / static_reverse_u64_bits on one byte:
\* reversed = (reversed << 1) | (b & 1); b >>= 1, n more times (u8 arithmetic).
RECURSIVE ReverseLoop(_, _, _)
ReverseLoop(b, reversed, n) ==
    IF n = 0 THEN reversed
    ELSE ReverseLoop(b \div 2, ((reversed * 2) % 256) + (b % 2), n - 1)

ReverseByte(b) == ReverseLoop(b, 0, 8)

reverse_bits_in_place(byte_slice) ==
    [ j \in 1 .. Len(byte_slice) |-> ReverseByte(byte_slice[j]) ]

static_reverse_u64_bits(number) ==
    FromBeBytes(reverse_bits_in_place(ToBeBytes(number)))

IOTA_TABLE ==
 << <<128,   0,   0,   0,   0,   0,   0,   0>>,   \* 9223372036854775808
    << 65,   1,   0,   0,   0,   0,   0,   0>>,   \* 4684025087442026496
    << 81,   1,   0,   0,   0,   0,   0,   1>>,   \* 5836946592048873473
    <<  0,   1,   0,   1,   0,   0,   0,   1>>,   \* 281479271677953
    <<209,   1,   0,   0,   0,   0,   0,   0>>,   \* 15060318628903649280
    <<128,   0,   0,   1,   0,   0,   0,   0>>,   \* 9223372041149743104
    <<129,   1,   0,   1,   0,   0,   0,   1>>,   \* 9295711110164381697
    <<144,   1,   0,   0,   0,   0,   0,   1>>,   \* 10376575016438333441
    << 81,   0,   0,   0,   0,   0,   0,   0>>,   \* 5836665117072162816
    << 17,   0,   0,   0,   0,   0,   0,   0>>,   \* 1224979098644774912
    <<144,   1,   0,   1,   0,   0,   0,   0>>,   \* 10376575020733300736
    << 80,   0,   0,   1,   0,   0,   0,   0>>,   \* 5764607527329202176
    <<209,   1,   0,   1,   0,   0,   0,   0>>,   \* 15060318633198616576
    <<209,   0,   0,   0,   0,   0,   0,   1>>,   \* 15060037153926938625
    <<145,   1,   0,   0,   0,   0,   0,   1>>,   \* 10448632610476261377
    <<192,   1,   0,   0,   0,   0,   0,   1>>,   \* 13835339530258874369
    << 64,   1,   0,   0,   0,   0,   0,   1>>,   \* 4611967493404098561
    <<  1,   0,   0,   0,   0,   0,   0,   1>>,   \* 72057594037927937
    << 80,   1,   0,   0,   0,   0,   0,   0>>,   \* 5764888998010945536
    << 80,   0,   0,   1,   0,   0,   0,   1>>,   \* 5764607527329202177
    <<129,   1,   0,   1,   0,   0,   0,   1>>,   \* 9295711110164381697
    <<  1,   1,   0,   0,   0,   0,   0,   1>>,   \* 72339069014638593
    <<128,   0,   0,   1,   0,   0,   0,   0>>,   \* 9223372041149743104
    << 16,   1,   0,   1,   0,   0,   0,   1>> >> \* 1153202983878524929

\* ------------------------------------------------------------------ Mode

LowerOf == [ c \in {"A", "B", "C", "D", "E", "F", "M"} |->
             CASE c = "A" -> "a" [] c = "B" -> "b" [] c = "C" -> "c"
               [] c = "D" -> "d" [] c = "E" -> "e" [] c = "F" -> "f"
               [] c = "M" -> "m" ]

\* String::to_lowercase on the characters the model uses
to_lowercase(value) ==
    [ j \in 1 .. Len(value) |->
        IF value[j] \in DOMAIN LowerOf THEN LowerOf[value[j]] ELSE value[j] ]

\* try_from with the 384-bit variant given the 256-bit rate.
try_from_rate(value) ==
    LET v == to_lowercase(value) IN
    CASE v = <<"2", "2", "4">> -> [ok |-> TRUE, mode |-> [variant |-> "Sha3_224", bit_rate |-> 144]]
      [] v = <<"2", "5", "6">> -> [ok |-> TRUE, mode |-> [variant |-> "Sha3_256", bit_rate |-> 136]]
      [] v = <<"3", "8", "4">> -> [ok |-> TRUE, mode |-> [variant |-> "Sha3_384", bit_rate |-> 136]]
      [] v = <<"5", "1", "2">> -> [ok |-> TRUE, mode |-> [variant |-> "Sha3_512", bit_rate |-> 72]]
      [] OTHER -> [ok |-> FALSE, err |-> "Invalide mode selected"]

\* Mode::try_from: Ok(mode) or Err
try_from(value) ==
    LET v == to_lowercase(value) IN
    CASE v = <<"2", "2", "4">> -> [ok |-> TRUE, mode |-> [variant |-> "Sha3_224", bit_rate |-> 144]]
      [] v = <<"2", "5", "6">> -> [ok |-> TRUE, mode |-> [variant |-> "Sha3_256", bit_rate |-> 136]]
      [] v = <<"3", "8", "4">> -> [ok |-> TRUE, mode |-> [variant |-> "Sha3_384", bit_rate |-> 104]]
      [] v = <<"5", "1", "2">> -> [ok |-> TRUE, mode |-> [variant |-> "Sha3_512", bit_rate |-> 72]]
      [] OTHER -> [ok |-> FALSE, err |-> "Invalide mode selected"]

\* Mode::default
ModeDefault == [variant |-> "Sha3_224", bit_rate |-> 144]

\* ---------------------------------------------------------------- Sponge

ZeroState == [ x \in 0 .. 4 |-> [ y \in 0 .. 4 |-> {} ] ]

\* Sponge::new
SpongeNew(m) == [mode |-> m, state |-> ZeroState]

\* theta with the parity rotated the other way.
theta_rotl(state) ==
    LET c == [ x \in 0 .. 4 |->
                 Xor(Xor(Xor(Xor(state[x][0], state[x][1]), state[x][2]),
                         state[x][3]), state[x][4]) ]
        d == [ x \in 0 .. 4 |->
                 Xor(c[(x + 4) % 5], RotateLeft(c[(x + 1) % 5], 1)) ]
    IN  [ x \in 0 .. 4 |-> [ y \in 0 .. 4 |-> Xor(state[x][y], d[x]) ] ]

\* Sponge::theta
theta(state) ==
    LET c == [ x \in 0 .. 4 |->
                 Xor(Xor(Xor(Xor(state[x][0], state[x][1]), state[x][2]),
                         state[x][3]), state[x][4]) ]
        d == [ x \in 0 .. 4 |->
                 Xor(c[(x + 4) % 5], RotateRight(c[(x + 1) % 5], 1)) ]
    IN  [ x \in 0 .. 4 |-> [ y \in 0 .. 4 |-> Xor(state[x][y], d[x]) ] ]

\* Sponge::rho
rho(state) ==
    [ x \in 0 .. 4 |-> [ y \in 0 .. 4 |->
        RotateRight(state[x][y], RHO_TABLE[CAM[x + 1] + 1][CAM[y + 1] + 1]) ] ]

\* Sponge::pi
pi(state) ==
    [ x \in 0 .. 4 |-> [ y \in 0 .. 4 |-> state[(x + (3 * y)) % 5][x] ] ]

\* chi without the complement.
chi_no_not(state) ==
    [ x \in 0 .. 4 |-> [ y \in 0 .. 4 |->
        Xor(state[x][y], And(state[(x + 1) % 5][y], state[(x + 2) % 5][y])) ] ]

\* Sponge::chi
chi(state) ==
    [ x \in 0 .. 4 |-> [ y \in 0 .. 4 |->
        Xor(state[x][y],
            And(Not(state[(x + 1) % 5][y]), state[(x + 2) % 5][y])) ] ]

\* Sponge::iota
iota(state, round) ==
    [ state EXCEPT ![0][0] = Xor(state[0][0], FromBeBytes(IOTA_TABLE[round + 1])) ]

\* ------------------------------------------------------------ file system

\* The files the arguments may name: path |-> length in bytes.
FileLen == [ c \in {"e", "a", "b", "c", "g", "h", "j", "k", "p", "q"} |->
             CASE c = "e" -> 0   [] c = "a" -> 1
               [] c = "b" -> 71  [] c = "c" -> 72
               [] c = "g" -> 103 [] c = "h" -> 104
               [] c = "j" -> 135 [] c = "k" -> 136
               [] c = "p" -> 143 [] c = "q" -> 144 ]

\* The bytes of a file of length n; the first byte is 0x61 ("a").
Data(n) == [ k \in 1 .. n |-> (97 + 37 * (k - 1)) % 256 ]

RegularPaths == { <<c>> : c \in DOMAIN FileLen }

\* A directory: metadata and open succeed, every read fails (EISDIR).
DirPath == <<"d">>

Paths == RegularPaths \cup {DirPath}

FS == [ path \in Paths |->
          IF path = DirPath
          THEN [size |-> 4096, data |-> <<>>, readable |-> FALSE]
          ELSE [size |-> FileLen[path[1]], data |-> Data(FileLen[path[1]]),
                readable |-> TRUE] ]

\* --------------------------------------------------------- absorb helpers

Zeros(n) == [ k \in 1 .. n |-> 0 ]

\* read_exact that reports end-of-input as soon as the data is used up.
read_exact_eager_eof(file, pos, n) ==
    LET avail == Len(file.data) - pos IN
    IF ~file.readable
    THEN [result |-> "Other", buffer |-> Zeros(n), pos |-> pos, nread |-> 0]
    ELSE IF avail > n
    THEN [result |-> "Ok", buffer |-> SubSeq(file.data, pos + 1, pos + n),
          pos |-> pos + n, nread |-> n]
    ELSE [result |-> "UnexpectedEof",
          buffer |-> SubSeq(file.data, pos + 1, Len(file.data)) \o Zeros(n - avail),
          pos |-> Len(file.data), nread |-> avail]

\* BufReader::read_exact into a zeroed buffer of n bytes, reader at offset pos.
\* On end-of-input the bytes obtained so far stay in the buffer (std's
\* default_read_exact copies each partial read before it reports the error).
read_exact(file, pos, n) ==
    LET avail == Len(file.data) - pos IN
    IF ~file.readable
    THEN [result |-> "Other", buffer |-> Zeros(n), pos |-> pos, nread |-> 0]
    ELSE IF avail >= n
    THEN [result |-> "Ok", buffer |-> SubSeq(file.data, pos + 1, pos + n),
          pos |-> pos + n, nread |-> n]
    ELSE [result |-> "UnexpectedEof",
          buffer |-> SubSeq(file.data, pos + 1, Len(file.data)) \o Zeros(n - avail),
          pos |-> Len(file.data), nread |-> avail]

\* The padding without the single-byte case.
Pad_two_writes(buf, file_size, bit_rate) ==
    LET padding_start_index == file_size % bit_rate IN
    [ [ buf EXCEPT ![padding_start_index + 1] = SHA_SUFFIX ] EXCEPT ![bit_rate] = 1 ]

\* The UnexpectedEof arm of absorb: the padding written into the buffer.
Pad(buf, file_size, bit_rate) ==
    LET padding_start_index == file_size % bit_rate IN
    IF padding_start_index = bit_rate - 1
    THEN [ buf EXCEPT ![padding_start_index + 1] = SHA_SUFFIX + 1 ]
    ELSE [ [ buf EXCEPT ![padding_start_index + 1] = SHA_SUFFIX ]
               EXCEPT ![bit_rate] = 1 ]

\* The lane loop of absorb, from lane to n - 1.
RECURSIVE FoldLanes(_, _, _, _)
FoldLanes(state, buf, lane, n) ==
    IF lane >= n THEN state
    ELSE LET x == lane % 5
             y == lane \div 5
             slice == SubSeq(buf, (lane * 8) + 1, (lane * 8) + 8)
         IN  FoldLanes([ state EXCEPT ![x][y] = Xor(state[x][y], FromBeBytes(slice)) ],
                       buf, lane + 1, n)

\* The lane loop with x and y exchanged.
RECURSIVE FoldLanesSwapped(_, _, _, _)
FoldLanesSwapped(state, buf, lane, n) ==
    IF lane >= n THEN state
    ELSE LET x == lane \div 5
             y == lane % 5
             slice == SubSeq(buf, (lane * 8) + 1, (lane * 8) + 8)
         IN  FoldLanesSwapped([ state EXCEPT ![x][y] = Xor(state[x][y], FromBeBytes(slice)) ],
                              buf, lane + 1, n)

Fold_swapped(state, buf, bit_rate) == FoldLanesSwapped(state, buf, 0, bit_rate \div 8)

Fold(state, buf, bit_rate) == FoldLanes(state, buf, 0, bit_rate \div 8)

\* -------------------------------------------------------- squeeze helpers

HexDigits == <<"0", "1", "2", "3", "4", "5", "6", "7",
               "8", "9", "a", "b", "c", "d", "e", "f">>

\* format!("{:016x}", v): 16 digits, most significant nibble first.
Format016x(v) ==
    [ n \in 1 .. 16 |->
        LET bit(k) == IF (4 * (16 - n) + k) \in v THEN Pow2(k) ELSE 0
        IN  HexDigits[bit(0) + bit(1) + bit(2) + bit(3) + 1] ]

\* The lanes squeeze reformats: every lane of the state.
ReverseLanes(state) ==
    [ x \in 0 .. 4 |-> [ y \in 0 .. 4 |-> static_reverse_u64_bits(state[x][y]) ] ]

\* output_hex_vec with one lane for every 16 bytes of the rate.
OutputHexVec_half(state, bit_rate) ==
    [ k \in 1 .. (bit_rate \div 16) |->
        Format016x(state[(k - 1) % 5][(k - 1) \div 5]) ]

\* output_hex_vec of squeeze
OutputHexVec(state, bit_rate) ==
    [ k \in 1 .. (bit_rate \div 8) |->
        Format016x(state[(k - 1) % 5][(k - 1) \div 5]) ]

\* Vec<String>::join("")
RECURSIVE Join(_)
Join(vec) == IF vec = <<>> THEN <<>> ELSE Head(vec) \o Join(Tail(vec))

\* String::truncate
Truncate(s, new_len) == IF new_len <= Len(s) THEN SubSeq(s, 1, new_len) ELSE s

\* The length squeeze truncates to, per variant.
TruncateLen(variant) ==
    CASE variant = "Sha3_224" -> 224 \div 4
      [] variant = "Sha3_256" -> 256 \div 4
      [] variant = "Sha3_384" -> 384 \div 4
      [] variant = "Sha3_512" -> 512 \div 4

\* The string squeeze returns, from the reformatted state.
SqueezeHex(state, m) ==
    Truncate(Join(OutputHexVec(state, m.bit_rate)), TruncateLen(m.variant))

\* Vec::remove(index) on a vector with index < len
Remove(v, index) == SubSeq(v, 1, index) \o SubSeq(v, index + 2, Len(v))

\* ------------------------------------------------------------------ state

VARIABLES
    args_clone,   \* main: the copy of the arguments the option loop reads
    args,         \* main: the arguments; in the second loop, those not yet taken
    i,            \* main: the option loop's index
    mode,         \* main: the selected Mode
    pc,           \* the program's position
    panic,        \* the message of the panic that ended the program, or ""
    argument,     \* main: the argument being hashed
    sponge,       \* main: the Sponge of the argument being hashed
    file_size,    \* absorb: the length metadata reported
    file_reader,  \* absorb: the open file and its read offset
    break_flag,   \* absorb
    buffer,       \* absorb: the block, as it is folded
    read_result,  \* absorb: "Ok", "UnexpectedEof" or "Other"
    round,        \* absorb: the round of the permutation under way
    output_hex,   \* the String squeeze returned
    stdout,       \* the lines printed
    calls,        \* history: the methods called on the current sponge
    ops,          \* history: the folds and rounds of the current absorb call
    nblocks,      \* history: the blocks the current absorb call has read
    nread         \* history: the bytes the last read obtained

vars == << args_clone, args, i, mode, pc, panic, argument, sponge, file_size,
           file_reader, break_flag, buffer, read_result, round, output_hex,
           stdout, calls, ops, nblocks, nread >>

main_vars == << args_clone, args, i, mode, argument, stdout >>

absorb_vars == << file_size, file_reader, break_flag, buffer, read_result,
                  round, ops, nblocks, nread >>

\* ----------------------------------------------------------------- inputs

DashM == <<"-", "m">>

ModeTokens == { <<"2", "2", "4">>, <<"2", "5", "6">>, <<"3", "8", "4">>,
                <<"5", "1", "2">> }

\* Strings that are no mode selector.
OtherTokens == { <<>>, <<"2", "2">>, <<"2", "2", "4", "0">>, <<"M">>,
                 <<"s", "h", "a", "2", "5", "6">> }

\* The tokens of the argument lists enumerated in full.
SmallTokens == { DashM, <<"2", "5", "6">>, <<"5", "1", "2">>, <<"E">>, <<"e">> }

SeqsUpTo(S, n) == UNION { [ 1 .. k -> S ] : k \in 0 .. n }

\* One file under each mode, alone or followed by a second file.
HashArgs ==
    { <<f>> : f \in Paths } \cup
    { <<DashM, m, f>> : m \in ModeTokens, f \in Paths } \cup
    { <<DashM, m, f, g>> : m \in ModeTokens, f \in Paths, g \in { <<"e">>, <<"a">> } } \cup
    { <<DashM, v, <<"e">> >> : v \in OtherTokens }

ArgLists == SeqsUpTo(SmallTokens, MaxArgs) \cup HashArgs

\* The state when the option loop starts (main.rs:13), argv[0] removed.
Init ==
    /\ args_clone \in ArgLists
    /\ args = args_clone
    /\ i = 0
    /\ mode = ModeDefault
    /\ pc = "opts"
    /\ panic = ""
    /\ argument = <<>>
    /\ sponge = SpongeNew(ModeDefault)
    /\ file_size = 0
    /\ file_reader = [path |-> <<>>, pos |-> 0]
    /\ break_flag = FALSE
    /\ buffer = <<>>
    /\ read_result = "None"
    /\ round = 0
    /\ output_hex = <<>>
    /\ stdout = <<>>
    /\ calls = <<>>
    /\ ops = <<>>
    /\ nblocks = 0
    /\ nread = 0

\* ---------------------------------------------------------------- actions

Panic(msg) == pc' = "panic" /\ panic' = msg

\* One iteration of the option loop (main.rs:13-25).
OptStep ==
    /\ pc = "opts"
    /\ i < Len(args_clone)
    /\ UNCHANGED << args_clone, argument, sponge, absorb_vars, output_hex,
                    stdout, calls >>
    /\ IF args_clone[i + 1] = DashM
       THEN IF i + 1 >= Len(args_clone)
            THEN /\ Panic("Please provide a mode value (224, 256, 384, 512)")
                 /\ UNCHANGED << args, i, mode >>
            ELSE LET r == try_from(args_clone[i + 2]) IN
                 IF ~r.ok
                 THEN /\ Panic("Invalid mode (224, 256, 384, 512)")
                      /\ UNCHANGED << args, i, mode >>
                 ELSE /\ mode' = r.mode
                      /\ IF i >= Len(args)
                         THEN /\ Panic("removal index out of bounds")
                              /\ UNCHANGED << args, i >>
                         ELSE IF i >= Len(args) - 1
                         THEN /\ Panic("removal index out of bounds")
                              /\ args' = Remove(args, i)
                              /\ UNCHANGED i
                         ELSE /\ args' = Remove(Remove(args, i), i)
                              /\ i' = i + 1
                              /\ UNCHANGED << pc, panic >>
       ELSE /\ i' = i + 1
            /\ UNCHANGED << args, mode, pc, panic >>

\* The option loop ends; args_clone is not read again.
OptsDone ==
    /\ pc = "opts"
    /\ i = Len(args_clone)
    /\ pc' = "for"
    /\ args_clone' = <<>>
    /\ i' = 0
    /\ UNCHANGED << args, mode, panic, argument, sponge, absorb_vars,
                    output_hex, stdout, calls >>

\* The second loop reusing the sponge of the argument before.
ForNext_reuse ==
    /\ pc = "for"
    /\ args # <<>>
    /\ argument' = Head(args)
    /\ args' = Tail(args)
    /\ sponge' = [sponge EXCEPT !.mode = mode]
    /\ calls' = <<"new">>
    /\ pc' = "absorb"
    /\ UNCHANGED << args_clone, i, mode, panic, absorb_vars, output_hex, stdout >>

\* The second loop takes the next argument and constructs its sponge
\* (main.rs:27-28).
ForNext ==
    /\ pc = "for"
    /\ args # <<>>
    /\ argument' = Head(args)
    /\ args' = Tail(args)
    /\ sponge' = SpongeNew(mode)
    /\ calls' = <<"new">>
    /\ pc' = "absorb"
    /\ UNCHANGED << args_clone, i, mode, panic, absorb_vars, output_hex, stdout >>

\* The second loop ends and main returns.
ForEnd ==
    /\ pc = "for"
    /\ args = <<>>
    /\ pc' = "done"
    /\ UNCHANGED << main_vars, panic, sponge, absorb_vars, output_hex, calls >>

\* absorb up to its loop (lib.rs:172-184).
AbsorbOpen ==
    /\ pc = "absorb"
    /\ calls' = Append(calls, "absorb")
    /\ UNCHANGED << main_vars, sponge, buffer, read_result, round, output_hex, nread >>
    /\ IF argument \notin DOMAIN FS
       THEN /\ Panic("called Result::unwrap() on an Err value")
            /\ UNCHANGED << file_size, file_reader, break_flag, ops, nblocks >>
       ELSE /\ file_size' = FS[argument].size
            /\ file_reader' = [path |-> argument, pos |-> 0]
            /\ break_flag' = FALSE
            /\ ops' = <<>>
            /\ nblocks' = 0
            /\ pc' = "read"
            /\ UNCHANGED panic

\* One block is read, bit-reversed and, at end-of-input, padded
\* (lib.rs:186-209).
ReadBlock ==
    /\ pc = "read"
    /\ nblocks < MaxBlocks
    /\ LET bit_rate == sponge.mode.bit_rate
           r == read_exact(FS[file_reader.path], file_reader.pos, bit_rate)
           reversed == reverse_bits_in_place(r.buffer)
       IN  /\ file_reader' = [file_reader EXCEPT !.pos = r.pos]
           /\ read_result' = r.result
           /\ nread' = r.nread
           /\ IF r.result = "UnexpectedEof"
              THEN /\ buffer' = Pad(reversed, file_size, bit_rate)
                   /\ break_flag' = TRUE
              ELSE /\ buffer' = reversed
                   /\ UNCHANGED break_flag
    /\ nblocks' = nblocks + 1
    /\ pc' = "fold"
    /\ UNCHANGED << main_vars, panic, sponge, file_size, round, output_hex,
                    calls, ops >>

\* The block is folded into the state (lib.rs:211-218).
FoldBlock ==
    /\ pc = "fold"
    /\ sponge' = [sponge EXCEPT !.state = Fold(sponge.state, buffer, sponge.mode.bit_rate)]
    /\ ops' = Append(ops, [op |-> "fold", n |-> nread, pad |-> break_flag])
    /\ round' = 0
    /\ pc' = "theta"
    /\ UNCHANGED << main_vars, panic, file_size, file_reader, break_flag,
                    buffer, read_result, output_hex, calls, nblocks, nread >>

\* A step of a round that only rewrites the state (lib.rs:221-224).
RoundStep(from, to, new_state) ==
    /\ pc = from
    /\ sponge' = [sponge EXCEPT !.state = new_state]
    /\ pc' = to
    /\ UNCHANGED << main_vars, panic, absorb_vars, output_hex, calls >>

Theta == RoundStep("theta", "rho", theta(sponge.state))

Rho == RoundStep("rho", "pi", rho(sponge.state))

Pi == RoundStep("pi", "chi", pi(sponge.state))

Chi == RoundStep("chi", "iota", chi(sponge.state))

\* iota ends the round; after round 23 the loop condition is tested and
\* absorb returns when break_flag is set (lib.rs:186, 220, 225).
Iota ==
    /\ pc = "iota"
    /\ sponge' = [sponge EXCEPT !.state = iota(sponge.state, round)]
    /\ ops' = Append(ops, [op |-> "round", n |-> round, pad |-> FALSE])
    /\ IF round < 23
       THEN round' = round + 1 /\ pc' = "theta"
       ELSE round' = round /\ pc' = (IF break_flag THEN "squeeze" ELSE "read")
    /\ UNCHANGED << main_vars, panic, file_size, file_reader, break_flag,
                    buffer, read_result, output_hex, calls, nblocks, nread >>

\* squeeze (lib.rs:232-269).
Squeeze ==
    /\ pc = "squeeze"
    /\ LET reformatted == ReverseLanes(sponge.state) IN
       /\ sponge' = [sponge EXCEPT !.state = reformatted]
       /\ output_hex' = SqueezeHex(reformatted, sponge.mode)
    /\ calls' = Append(calls, "squeeze")
    /\ pc' = "print"
    /\ UNCHANGED << main_vars, panic, absorb_vars >>

\* println!("{}  {}", digest, argument) (main.rs:31).
Println ==
    /\ pc = "print"
    /\ stdout' = Append(stdout, output_hex \o <<" ", " ">> \o argument)
    /\ pc' = "for"
    /\ UNCHANGED << args_clone, args, i, mode, argument, panic, sponge,
                    absorb_vars, output_hex, calls >>

Next ==
    \/ OptStep
    \/ OptsDone
    \/ ForNext
    \/ ForEnd
    \/ AbsorbOpen
    \/ ReadBlock
    \/ FoldBlock
    \/ Theta
    \/ Rho
    \/ Pi
    \/ Chi
    \/ Iota
    \/ Squeeze
    \/ Println

Spec == Init /\ [][Next]_vars

\* ----------------------------------------------------------------- claims

\* The published SHA3 digests of the empty string (FIPS 202 known answers).
\* 6b4e03423667dbb73b6e15454f0eb1abd4597f9a1b078e3f5b5a6bc7
EmptyDigest224 ==
    <<"6","b","4","e","0","3","4","2","3","6","6","7","d","b","b","7","3",
      "b","6","e","1","5","4","5","4","f","0","e","b","1","a","b","d","4",
      "5","9","7","f","9","a","1","b","0","7","8","e","3","f","5","b","5",
      "a","6","b","c","7">>

\* a7ffc6f8bf1ed76651c14756a061d662f580ff4de43b49fa82d80a4b80f8434a
EmptyDigest256 ==
    <<"a","7","f","f","c","6","f","8","b","f","1","e","d","7","6","6","5",
      "1","c","1","4","7","5","6","a","0","6","1","d","6","6","2","f","5",
      "8","0","f","f","4","d","e","4","3","b","4","9","f","a","8","2","d",
      "8","0","a","4","b","8","0","f","8","4","3","4","a">>

\* 0c63a75b845e4f7d01107d852e4c2485c51a50aaaa94fc61995e71bbee983a2ac3713831264adb47fb6bd1e058d5f004
EmptyDigest384 ==
    <<"0","c","6","3","a","7","5","b","8","4","5","e","4","f","7","d","0",
      "1","1","0","7","d","8","5","2","e","4","c","2","4","8","5","c","5",
      "1","a","5","0","a","a","a","a","9","4","f","c","6","1","9","9","5",
      "e","7","1","b","b","e","e","9","8","3","a","2","a","c","3","7","1",
      "3","8","3","1","2","6","4","a","d","b","4","7","f","b","6","b","d",
      "1","e","0","5","8","d","5","f","0","0","4">>

\* a69f73cca23a9ac5c8b567dc185a756e97c982164fe25859e0d1dcc1475c80a615b2123af1f5f94c11e3e9402c3ac558f500199d95b6d3e301758586281dcd26
EmptyDigest512 ==
    <<"a","6","9","f","7","3","c","c","a","2","3","a","9","a","c","5","c",
      "8","b","5","6","7","d","c","1","8","5","a","7","5","6","e","9","7",
      "c","9","8","2","1","6","4","f","e","2","5","8","5","9","e","0","d",
      "1","d","c","c","1","4","7","5","c","8","0","a","6","1","5","b","2",
      "1","2","3","a","f","1","f","5","f","9","4","c","1","1","e","3","e",
      "9","4","0","2","c","3","a","c","5","5","8","f","5","0","0","1","9",
      "9","d","9","5","b","6","d","3","e","3","0","1","7","5","8","5","8",
      "6","2","8","1","d","c","d","2","6">>

EmptyDigest(variant) ==
    CASE variant = "Sha3_224" -> EmptyDigest224
      [] variant = "Sha3_256" -> EmptyDigest256
      [] variant = "Sha3_384" -> EmptyDigest384
      [] variant = "Sha3_512" -> EmptyDigest512

Hashing == pc \in {"read", "fold", "theta", "rho", "pi", "chi", "iota"}

\* The input absorb is reading, or has read.
Input == FS[argument]

\* C1: in every mode, the string squeeze returns for a readable input of zero
\* bytes is the published SHA3 digest of the empty string for that width.
C1_EmptyInputDigest ==
    (pc = "print" /\ Input.readable /\ Len(Input.data) = 0)
        => output_hex = EmptyDigest(sponge.mode.variant)

C1_Witness ==
    /\ pc = "print"
    /\ argument = <<"e">>
    /\ sponge.mode.variant = "Sha3_256"
    /\ output_hex = EmptyDigest256

\* C2: once a block read has failed for a reason other than end-of-input,
\* absorb has failed: the program is stopped by the propagated failure and
\* is not folding or permuting a block, reading again or squeezing.
C2_ReadFailureStopsAbsorb ==
    read_result = "Other" => pc = "panic"

\* The folds and rounds of absorbing L readable bytes at rate r: L / r + 1
\* blocks, each folded and then permuted by rounds 0..23, the full blocks
\* first and the padded block, short or empty, last.
ExpectedOps(L, r) ==
    [ k \in 1 .. 25 * ((L \div r) + 1) |->
        LET b == (k - 1) \div 25
            j == (k - 1) % 25
        IN  IF j = 0
            THEN [op |-> "fold", n |-> IF b < L \div r THEN r ELSE L % r,
                  pad |-> (b = L \div r)]
            ELSE [op |-> "round", n |-> j - 1, pad |-> FALSE] ]

IsPrefix(s, t) == Len(s) <= Len(t) /\ s = SubSeq(t, 1, Len(s))

\* The steps of the current absorb call taken so far: a block takes 122
\* steps (its read, its fold and 24 rounds of 5 steps).
StepsTaken ==
    CASE pc = "read"    -> 122 * nblocks
      [] pc = "squeeze" -> 122 * nblocks
      [] pc = "fold"    -> (122 * (nblocks - 1)) + 1
      [] pc = "theta"   -> (122 * (nblocks - 1)) + (5 * round) + 2
      [] pc = "rho"     -> (122 * (nblocks - 1)) + (5 * round) + 3
      [] pc = "pi"      -> (122 * (nblocks - 1)) + (5 * round) + 4
      [] pc = "chi"     -> (122 * (nblocks - 1)) + (5 * round) + 5
      [] pc = "iota"    -> (122 * (nblocks - 1)) + (5 * round) + 6

\* C3: absorb of a readable input of L bytes at rate r returns after exactly
\* L / r + 1 blocks, each folded and then permuted once by rounds 0..23 in
\* order, the padded block last, and that last block comes from a read of
\* zero bytes when L is a multiple of r.  Termination is stated by a
\* variant: until it returns absorb can always take a step (the read is the
\* only step with a condition besides the position), every step is one step
\* further, and no run goes past the 122 * (L / r + 1) steps of those blocks.
C3_BlocksAndTermination ==
    /\ [](pc = "squeeze" =>
            /\ ops = ExpectedOps(Len(Input.data), sponge.mode.bit_rate)
            /\ nblocks = (Len(Input.data) \div sponge.mode.bit_rate) + 1)
    /\ []((Hashing /\ Input.readable) =>
            /\ IsPrefix(ops, ExpectedOps(Len(Input.data), sponge.mode.bit_rate))
            /\ StepsTaken < 122 * ((Len(Input.data) \div sponge.mode.bit_rate) + 1)
            /\ (pc = "read" => ENABLED ReadBlock))
    /\ [][ (Hashing /\ Input.readable) => StepsTaken' = StepsTaken + 1 ]_vars

C3_Witness ==
    /\ pc = "squeeze"
    /\ Len(Input.data) = sponge.mode.bit_rate
    /\ nblocks = 2
    /\ nread = 0

\* The digest length in hexadecimal characters, per variant.
DigestHexChars(variant) ==
    CASE variant = "Sha3_224" -> 56
      [] variant = "Sha3_256" -> 64
      [] variant = "Sha3_384" -> 96
      [] variant = "Sha3_512" -> 128

\* C4: the string squeeze returns has exactly 56, 64, 96 or 128 characters
\* for the 224/256/384/512-bit mode, and the rate / 8 serialized lanes of 16
\* characters each are at least that long.
C4_DigestLength ==
    pc = "print" =>
        /\ Len(output_hex) = DigestHexChars(sponge.mode.variant)
        /\ Len(Join(OutputHexVec(sponge.state, sponge.mode.bit_rate)))
               >= DigestHexChars(sponge.mode.variant)
        /\ 16 * (sponge.mode.bit_rate \div 8) >= DigestHexChars(sponge.mode.variant)

C4_Witness ==
    /\ pc = "print"
    /\ sponge.mode.variant = "Sha3_512"
    /\ Len(output_hex) = 128
    /\ Len(Input.data) > 0

InvalidModePanic == "Invalid mode (224, 256, 384, 512)"

\* C5: a step that passes the value after "-m" to Mode::try_from selects
\* Sha3_224/144, Sha3_256/136, Sha3_384/104 or Sha3_512/72 for "224", "256",
\* "384", "512", and for every other string ends in the invalid-mode failure
\* with no Mode selected.
C5_TryFromSelectors ==
    [][ (pc = "opts" /\ i + 1 < Len(args_clone) /\ args_clone[i + 1] = DashM) =>
          LET value == args_clone[i + 2] IN
          CASE value = <<"2", "2", "4">> ->
                 mode' = [variant |-> "Sha3_224", bit_rate |-> 144] /\ panic' # InvalidModePanic
            [] value = <<"2", "5", "6">> ->
                 mode' = [variant |-> "Sha3_256", bit_rate |-> 136] /\ panic' # InvalidModePanic
            [] value = <<"3", "8", "4">> ->
                 mode' = [variant |-> "Sha3_384", bit_rate |-> 104] /\ panic' # InvalidModePanic
            [] value = <<"5", "1", "2">> ->
                 mode' = [variant |-> "Sha3_512", bit_rate |-> 72] /\ panic' # InvalidModePanic
            [] OTHER ->
                 mode' = mode /\ pc' = "panic" /\ panic' = InvalidModePanic
      ]_vars

C5_Witness ==
    /\ pc = "read"
    /\ mode = [variant |-> "Sha3_384", bit_rate |-> 104]
    /\ sponge.mode = mode

\* C6: the methods called on a sponge are new, absorb, squeeze in that order,
\* each at most once; the sponge handed to absorb is fresh (all 25 lanes
\* zero, the selected mode) whatever was hashed before it.
C6_Lifecycle ==
    /\ calls \in { <<>>, <<"new">>, <<"new", "absorb">>, <<"new", "absorb", "squeeze">> }
    /\ pc = "absorb" => (calls = <<"new">> /\ sponge = [mode |-> mode, state |-> ZeroState])
    /\ (Hashing \/ pc = "squeeze") => calls = <<"new", "absorb">>
    /\ pc = "print" => calls = <<"new", "absorb", "squeeze">>

C6_Witness ==
    /\ pc = "absorb"
    /\ Len(stdout) = 1
    /\ sponge.state = ZeroState

\* C7: in the final block, p = input length mod rate is the number of bytes
\* the final read obtained; the block holds those bytes (bit-mirrored) below
\* offset p, then 0x61 at offset p when p = rate - 1, else 0x60 at offset p
\* and 0x01 at offset rate - 1, and zero everywhere else.
C7_FinalBlockPadding ==
    (pc = "fold" /\ read_result = "UnexpectedEof") =>
        LET r == sponge.mode.bit_rate
            L == Len(Input.data)
            p == L % r
        IN  /\ nread = p
            /\ Len(buffer) = r
            /\ \A k \in 0 .. r - 1 :
                 buffer[k + 1] =
                    IF k < p THEN ReverseByte(Input.data[(L - p) + k + 1])
                    ELSE IF k = p THEN (IF p = r - 1 THEN 97 ELSE 96)
                    ELSE IF k = r - 1 THEN 1
                    ELSE 0

C7_Witness ==
    /\ pc = "fold"
    /\ read_result = "UnexpectedEof"
    /\ nread = sponge.mode.bit_rate - 1
    /\ buffer[sponge.mode.bit_rate] = 97

\* The parity of column x of a state: bit b is set when an odd number of the
\* column's five lanes have it set.
ColumnParity(state, x) ==
    { b \in BitPos : Cardinality({ y \in 0 .. 4 : b \in state[x][y] }) % 2 = 1 }

\* The correction of column x from the five column parities C: the parity of
\* column x - 1 XOR the parity of column x + 1 with the bit at position
\* b + from moved to position b (from = 63: rotated left by one bit;
\* from = 1: rotated right by one bit).
Correction(C, x, from) ==
    { b \in BitPos :
        (b \in C[((x + 4) % 5) + 1]) # (((b + from) % 64) \in C[((x + 1) % 5) + 1]) }

\* The state after a theta step that XORs that correction into every lane
\* of column x, with all parities taken from the state before the step.
ThetaOf(state, from) ==
    LET C == << ColumnParity(state, 0), ColumnParity(state, 1), ColumnParity(state, 2),
                ColumnParity(state, 3), ColumnParity(state, 4) >>
        D == << Correction(C, 0, from), Correction(C, 1, from), Correction(C, 2, from),
                Correction(C, 3, from), Correction(C, 4, from) >>
    IN  [ x \in 0 .. 4 |-> [ y \in 0 .. 4 |->
            { b \in BitPos : (b \in state[x][y]) # (b \in D[x + 1]) } ] ]

\* C8 as stated: the theta step XORs into every lane of column x the parity
\* of column x - 1 XOR the parity of column x + 1 rotated left by one bit.
C8_ThetaRotatesLeft ==
    [][ pc = "theta" => sponge'.state = ThetaOf(sponge.state, 63) ]_vars

\* C8 amended: the theta step XORs into every lane of column x the parity of
\* column x - 1 XOR the parity of column x + 1 rotated right by one bit (as
\* a 64-bit rotation), all parities taken from the state before the step.
C8_ThetaRotatesRight ==
    [][ pc = "theta" => sponge'.state = ThetaOf(sponge.state, 1) ]_vars

C8_Witness ==
    /\ pc = "rho"
    /\ round = 1
    /\ sponge.state # ZeroState

\* C9: the fold XORs lane i of the block into the lane at (i mod 5, i div 5)
\* for i < rate / 8 and leaves the other 25 - rate / 8 lanes as they were;
\* the rate is a multiple of 8.
C9_FoldFrame ==
    [][ pc = "fold" =>
          /\ sponge.mode.bit_rate % 8 = 0
          /\ \A lane \in 0 .. 24 :
               LET x == lane % 5
                   y == lane \div 5
               IN  sponge'.state[x][y] =
                     IF lane < sponge.mode.bit_rate \div 8
                     THEN Xor(sponge.state[x][y],
                              FromBeBytes(SubSeq(buffer, (8 * lane) + 1, (8 * lane) + 8)))
                     ELSE sponge.state[x][y]
      ]_vars

C9_Witness ==
    /\ pc = "theta"
    /\ round = 0
    /\ nblocks = 2
    /\ sponge.mode.bit_rate = 72
    /\ sponge.state[4][4] # {}

\* The argument list without every "-m" and the value after it.
RECURSIVE StripOptions(_)
StripOptions(a) ==
    IF a = <<>> THEN <<>>
    ELSE IF Head(a) = DashM THEN StripOptions(SubSeq(a, 3, Len(a)))
    ELSE <<Head(a)>> \o StripOptions(Tail(a))

\* The mode of the last "-m" of the list, the default without one.
RECURSIVE LastMode(_, _)
LastMode(a, m) ==
    IF a = <<>> THEN m
    ELSE IF Head(a) = DashM /\ Len(a) >= 2 /\ try_from(a[2]).ok
    THEN LastMode(SubSeq(a, 3, Len(a)), try_from(a[2]).mode)
    ELSE LastMode(Tail(a), m)

\* C10: the option loop never removes at an index past the end of the list,
\* and when it ends the list is the original without every "-m" and its
\* value, in order, and the mode is that of the last "-m" (else the default).
C10_OptionsStripped ==
    /\ panic # "removal index out of bounds"
    /\ (pc = "opts" /\ i = Len(args_clone)) =>
           (args = StripOptions(args_clone) /\ mode = LastMode(args_clone, ModeDefault))

====
